---- MODULE Spec2Model ----
(***************************************************************************)
(* Model of MotionEditor (src/motion_editor/motion_editor.cpp/.hpp).       *)
(*                                                                         *)
(* State: the editor's frames_, meta_blobs_ and joint_to_id_, the files on *)
(* disk, and a record `last` of the most recent public call (its           *)
(* arguments, the exception it raised, its return value and the editor     *)
(* state it started from).  loaded_doc remembers the top-level entries of  *)
(* the document of the last loadFromFile that read a sequence, and each    *)
(* file remembers in `from` the editor state saveToFile wrote it from.     *)
(*                                                                         *)
(* A YAML node is a record with a kind in {"null", "scalar", "seq", "map"}: *)
(*   a scalar carries its text and whether it was written quoted; a        *)
(*   sequence carries items; a map carries keys and, in parallel, items    *)
(*   (its values), in document order.                                      *)
(* A double is a fixed-point number of hundredths of a radian (33 is 0.33).*)
(***************************************************************************)
EXTENDS Integers, Sequences, FiniteSets, TLC

VARIABLES frames, meta_blobs, joint_to_id, disk, loaded_doc, last, nedits

vars == <<frames, meta_blobs, joint_to_id, disk, loaded_doc, last, nedits>>

\* ---------------------------------------------------------------- bounds
\* number of edit calls (editJoints / editFourArmJoints) in one run
MaxEdits == 1

\* ------------------------------------------------------------ YAML nodes
Null == [kind |-> "null"]
Sc(t) == [kind |-> "scalar", text |-> t, quoted |-> FALSE]
Qs(t) == [kind |-> "scalar", text |-> t, quoted |-> TRUE]
Sq(xs) == [kind |-> "seq", items |-> xs]
Mp(ks, xs) == [kind |-> "map", keys |-> ks, items |-> xs]

\* YAML::Node::operator[] on a map: the value of the first pair with that key
HasKeyIn(n, key) == \E i \in 1..Len(n.keys) : n.keys[i] = key
Get(n, key) == n.items[CHOOSE i \in 1..Len(n.keys) :
                         /\ n.keys[i] = key
                         /\ \A j \in 1..(i-1) : n.keys[j] # key]

\* ----------------------------------------------------- scalar conversions
\* the integers and the positions (hundredths of a radian) of the model
IntRange == 0 .. 22
PosRange == {-11, 0, 33, 50, 100}

\* operator<< of an int
IntToText(i) == ToString(i)
\* as<int>(): the text must spell an integer
IntTextOf == [i \in IntRange |-> IntToText(i)]
IsIntText(t) == \E i \in IntRange : IntTextOf[i] = t
AsInt(t) == CHOOSE i \in IntRange : IntTextOf[i] = t

\* operator<< of a double: the shortest decimal (1 for 100, 0.5 for 50, -0.11)
AbsVal(p) == IF p < 0 THEN -p ELSE p
FracText(f) == IF f % 10 = 0 THEN ToString(f \div 10)
               ELSE IF f < 10 THEN "0" \o ToString(f) ELSE ToString(f)
DoubleToText(p) ==
  LET a == AbsVal(p)
      sign == IF p < 0 THEN "-" ELSE ""
  IN IF a % 100 = 0 THEN sign \o ToString(a \div 100)
     ELSE sign \o ToString(a \div 100) \o "." \o FracText(a % 100)
\* as<double>(): the shortest decimal, or an integral value spelled with ".0"
DoubleTexts(p) == {DoubleToText(p)} \cup
                  (IF p % 100 = 0 THEN {DoubleToText(p) \o ".0"} ELSE {})
IsDoubleText(t) == \E p \in PosRange : t \in DoubleTexts(p)
AsDouble(t) == CHOOSE p \in PosRange : t \in DoubleTexts(p)

\* operator<< of a bool, and as<bool>()
BoolToText(b) == IF b THEN "true" ELSE "false"
TrueTexts == {"true", "True", "TRUE", "yes", "Yes", "YES", "y", "Y", "on", "On", "ON"}
FalseTexts == {"false", "False", "FALSE", "no", "No", "NO", "n", "N", "off", "Off", "OFF"}
IsBoolText(t) == t \in TrueTexts \cup FalseTexts
AsBool(t) == t \in TrueTexts

\* the emitter quotes a string only when it is no valid plain scalar
NeedsQuotes(t) == t \in {"", "~", "null", "Null", "NULL"}
EmitString(t) == IF NeedsQuotes(t) THEN Qs(t) ELSE Sc(t)

\* operator<< of a node followed by YAML::Load of the text: the structure and
\* every scalar's text survive, the quoting style is the emitter's choice
RECURSIVE Canon(_)
Canon(n) ==
  CASE n.kind = "scalar" -> EmitString(n.text)
    [] n.kind = "seq" -> Sq([i \in 1..Len(n.items) |-> Canon(n.items[i])])
    [] n.kind = "map" -> Mp(n.keys, [i \in 1..Len(n.items) |-> Canon(n.items[i])])
    [] OTHER -> Null

\* MetaBlob::rawYaml: the dumped text of a node (ss << item)
Dump(n) == [rawYaml |-> Canon(n)]
\* YAML::Load(mb.rawYaml)
LoadRaw(mb) == mb.rawYaml

\* ------------------------------------------------- documents on disk (input)
Joint(idText, posText) == Mp(<<"id", "position">>, <<Sc(idText), Sc(posText)>>)

\* top-level entries that are no frame candidates
\* a quoted scalar; a mapping with time and name but no dxl
EBlobScalar == Qs("meta")
EBlobNoDxl == Mp(<<"time", "name", "note">>,
                 <<Sc("1"), Sc("f1"), Sq(<<Qs("~"), Null, Qs("x")>>)>>)
\* a mapping with dxl and time but no name
EBlobNoName == Mp(<<"dxl", "time">>, <<Sq(<<>>), Sc("1")>>)
\* well-formed frames: f1 with ids 1 and 2; a second f1 with a non-map joint
\* element and id 5 twice, no delay/repeat/selected; "2" with no joints
EFrameA == Mp(<<"time", "delay", "repeat", "name", "selected", "dxl">>,
              <<Sc("1"), Sc("2"), Sc("3"), Sc("f1"), Sc("true"),
                Sq(<<Joint("1", "0.5"), Joint("2", "1.0")>>)>>)
EFrameB == Mp(<<"dxl", "name", "time">>,
              <<Sq(<<Sc("junk"), Joint("5", "-0.11"), Joint("5", "0")>>),
                Qs("f1"), Sc("4")>>)
EFrameC == Mp(<<"name", "time", "selected", "dxl">>,
              <<Sc("2"), Sc("0"), Sc("yes"), Sq(<<>>)>>)
\* a frame candidate that does not parse: dxl is a scalar
EBadDxl == Mp(<<"dxl", "time", "name">>, <<Sc("5"), Sc("1"), Sc("bad")>>)

\* the documents initially on disk: blobs between frames; two frames named f1
\* behind another frame; a candidate that does not parse after a blob and a
\* frame; no entries
DocMixed == <<EBlobScalar, EFrameA, EBlobNoDxl, EFrameC>>
DocTwins == <<EFrameC, EFrameB, EBlobNoName, EFrameA>>
DocBroken == <<EBlobScalar, EFrameA, EBadDxl, EFrameC>>
DocEmpty == <<>>
\* roots of the files initially on disk: a sequence, a map, or an empty file
Roots == {Sq(DocMixed), Sq(DocTwins), Sq(DocBroken), Sq(DocEmpty),
          EBlobNoDxl, Null}

Paths == {"motion.yaml"}
\* a path that is no file and cannot be opened for writing
BadPath == "/nodir/out.yaml"
NoFile == [exists |-> FALSE, root |-> Null, from |-> <<>>]

\* ------------------------------------------------------------ the editor
\* struct DxlValue, struct Frame
DxlValue(id, position) == [id |-> id, position |-> position]
Frame(time, delay, repeat, name, selected, dxl) ==
  [time |-> time, delay |-> delay, repeat |-> repeat, name |-> name,
   selected |-> selected, dxl |-> dxl]

\* MotionEditor::MotionEditor(): the default mapping
DefaultJointToId ==
  [j \in {"rotate_torso", "rotate_0", "rotate_1", "rotate_2", "rotate_3", "rotate_5"} |->
     CASE j = "rotate_torso" -> 22
       [] j = "rotate_0" -> 0
       [] j = "rotate_1" -> 1
       [] j = "rotate_2" -> 2
       [] j = "rotate_3" -> 3
       [] OTHER -> 5]
\* a mapping a caller passes to the second constructor or to setJointToId:
\* rotate_5 unmapped and the non-whitelisted rotate_7 mapped
CustomJointToId == [j \in {"rotate_1", "rotate_7"} |-> IF j = "rotate_1" THEN 1 ELSE 7]
Mappings == {DefaultJointToId, CustomJointToId}

\* static bool hasKey(const YAML::Node& n, const char* key)
hasKey(n, key) == n.kind = "map" /\ HasKeyIn(n, key)

\* mutant: an entry with a dxl key alone is taken for a frame
appearsFrame_DxlOnly(item) == hasKey(item, "dxl")

\* loadFromFile: const bool appearsFrame
appearsFrame(item) == hasKey(item, "dxl") /\ hasKey(item, "time") /\ hasKey(item, "name")

\* parseFrameFromNode: `if (n[key]) f.key = n[key].as<T>()` throws on a value
\* that does not convert (a null, a sequence and a map convert to nothing),
\* and keeps the default on a missing key
IntOk(n, key) == HasKeyIn(n, key) =>
                   (Get(n, key).kind = "scalar" /\ IsIntText(Get(n, key).text))
IntVal(n, key) == IF HasKeyIn(n, key) THEN AsInt(Get(n, key).text) ELSE 0
StrOk(n, key) == HasKeyIn(n, key) => Get(n, key).kind = "scalar"
StrVal(n, key) == IF HasKeyIn(n, key) THEN Get(n, key).text ELSE ""
BoolOk(n, key) == HasKeyIn(n, key) =>
                    (Get(n, key).kind = "scalar" /\ IsBoolText(Get(n, key).text))
BoolVal(n, key) == IF HasKeyIn(n, key) THEN AsBool(Get(n, key).text) ELSE FALSE

\* parseFrameFromNode, the loop over n["dxl"]: a non-map element is skipped,
\* a map element needs an int id and a double position
DxlElemOk(elem) ==
  elem.kind = "map" =>
    /\ HasKeyIn(elem, "id") /\ Get(elem, "id").kind = "scalar"
    /\ IsIntText(Get(elem, "id").text)
    /\ HasKeyIn(elem, "position") /\ Get(elem, "position").kind = "scalar"
    /\ IsDoubleText(Get(elem, "position").text)
ParseDxl(d) ==
  LET IsMap(elem) == elem.kind = "map"
      maps == SelectSeq(d.items, IsMap)
  IN [i \in 1..Len(maps) |->
        DxlValue(AsInt(Get(maps[i], "id").text), AsDouble(Get(maps[i], "position").text))]

\* Frame MotionEditor::parseFrameFromNode(const YAML::Node& n): ok is FALSE
\* when the code throws
parseFrameFromNode(n) ==
  LET ok == /\ IntOk(n, "time") /\ IntOk(n, "delay") /\ IntOk(n, "repeat")
            /\ StrOk(n, "name") /\ BoolOk(n, "selected")
            /\ HasKeyIn(n, "dxl") /\ Get(n, "dxl").kind = "seq"
            /\ \A i \in 1..Len(Get(n, "dxl").items) : DxlElemOk(Get(n, "dxl").items[i])
  IN IF ok
     THEN [ok |-> TRUE,
           f |-> Frame(IntVal(n, "time"), IntVal(n, "delay"), IntVal(n, "repeat"),
                       StrVal(n, "name"), BoolVal(n, "selected"), ParseDxl(Get(n, "dxl")))]
     ELSE [ok |-> FALSE, f |-> Frame(0, 0, 0, "", FALSE, <<>>)]

\* loadFromFile, the loop over root: frames_ and meta_blobs_ grow entry by
\* entry, and a throwing parseFrameFromNode leaves the loop with what they hold
RECURSIVE LoadItems(_, _, _, _)
LoadItems(items, i, fs, mbs) ==
  IF i > Len(items) THEN [err |-> "none", frames |-> fs, meta_blobs |-> mbs]
  ELSE IF appearsFrame(items[i])
       THEN LET r == parseFrameFromNode(items[i])
            IN IF r.ok THEN LoadItems(items, i + 1, Append(fs, r.f), mbs)
               ELSE [err |-> "ParseError", frames |-> fs, meta_blobs |-> mbs]
       ELSE LoadItems(items, i + 1, fs, Append(mbs, Dump(items[i])))

\* void MotionEditor::loadFromFile(const std::string& path), as a function of
\* the file: clear, YAML::LoadFile (throws on a missing file), the root check,
\* the loop
LoadResult(file) ==
  IF ~file.exists THEN [err |-> "BadFile", frames |-> <<>>, meta_blobs |-> <<>>]
  ELSE IF file.root.kind # "seq"
       THEN [err |-> "FormatError", frames |-> <<>>, meta_blobs |-> <<>>]
       ELSE LoadItems(file.root.items, 1, <<>>, <<>>)

\* mutant: the search keeps going and returns the last frame with that name
findFrameIndexByName_Last(fs, step_name) ==
  IF \E i \in 1..Len(fs) : fs[i].name = step_name
  THEN (CHOOSE i \in 1..Len(fs) :
          /\ fs[i].name = step_name
          /\ \A j \in (i+1)..Len(fs) : fs[j].name # step_name) - 1
  ELSE -1

\* int MotionEditor::findFrameIndexByName(const std::string& step_name) const:
\* the 0-based index of the first frame with that name, or -1
findFrameIndexByName(fs, step_name) ==
  IF \E i \in 1..Len(fs) : fs[i].name = step_name
  THEN (CHOOSE i \in 1..Len(fs) :
          /\ fs[i].name = step_name
          /\ \A j \in 1..(i-1) : fs[j].name # step_name) - 1
  ELSE -1

\* std::vector<std::string> MotionEditor::listStepNames() const
listStepNames(fs) == [i \in 1..Len(fs) |-> fs[i].name]

\* std::optional<Frame> MotionEditor::getFrame(const std::string& step_name) const
getFrame(fs, step_name) ==
  LET idx == findFrameIndexByName(fs, step_name)
  IN IF idx < 0 THEN [has |-> FALSE, f |-> Frame(0, 0, 0, "", FALSE, <<>>)]
     ELSE [has |-> TRUE, f |-> fs[idx + 1]]

\* editJoints: `for (auto& dv : f.dxl) id2dxl[dv.id] = &dv;` a pointer per id,
\* to the last element with that id; live while the vector's storage is
BuildId2Dxl(dxl) ==
  [id \in {dxl[i].id : i \in 1..Len(dxl)} |->
     [idx |-> CHOOSE i \in 1..Len(dxl) :
                /\ dxl[i].id = id
                /\ \A j \in (i+1)..Len(dxl) : dxl[j].id # id,
      live |-> TRUE]]

\* editJoints: f.dxl.push_back(dv). When the vector has no spare capacity the
\* elements move to new storage and every DxlValue* held in id2dxl dangles
AfterPushBack(id2dxl, realloc) ==
  IF realloc THEN [id \in DOMAIN id2dxl |-> [id2dxl[id] EXCEPT !.live = FALSE]]
  ELSE id2dxl

\* mutant: the store goes to the element after the one the pointer names
WriteThrough_Neighbour(dxl, ptr, qrad) ==
  IF ptr.live THEN [dxl EXCEPT ![(ptr.idx % Len(dxl)) + 1].position = qrad] ELSE dxl

\* editJoints: it2->second->position = qrad. Through a dangling pointer the
\* store goes to the freed storage and the frame's element keeps its position
WriteThrough(dxl, ptr, qrad) ==
  IF ptr.live THEN [dxl EXCEPT ![ptr.idx].position = qrad] ELSE dxl

\* mutant: an unknown joint name throws whatever strict says
ThrowsOnUnknown_Always(strict) == TRUE

\* editJoints: an unknown joint name throws under strict and is skipped otherwise
ThrowsOnUnknown(strict) == strict

\* editJoints, the loop over joint_positions_rad from its k-th pair on.
\* call.order is the unordered_map's iteration order, call.reallocs[k] whether
\* a push_back in iteration k reallocates
RECURSIVE EditPairs(_, _, _, _)
EditPairs(dxl, id2dxl, k, call) ==
  IF k > Len(call.order) THEN [err |-> "none", dxl |-> dxl]
  ELSE LET jname == call.order[k]
       IN IF jname \notin DOMAIN call.joint_to_id
          THEN IF ThrowsOnUnknown(call.strict)
               THEN [err |-> "UnknownJoint", dxl |-> dxl]
               ELSE EditPairs(dxl, id2dxl, k + 1, call)
          ELSE LET id == call.joint_to_id[jname]
                   qrad == call.upd[jname]
               IN IF id \notin DOMAIN id2dxl
                  THEN LET grown == Append(dxl, DxlValue(id, qrad))
                           ptrs == AfterPushBack(id2dxl, call.reallocs[k])
                       IN EditPairs(grown,
                                    (id :> [idx |-> Len(grown), live |-> TRUE]) @@ ptrs,
                                    k + 1, call)
                  ELSE EditPairs(WriteThrough(dxl, id2dxl[id], qrad), id2dxl, k + 1, call)

\* the iteration orders of an unordered_map with the keys S
Orders(S) == {o \in [1..Cardinality(S) -> S] :
                \A i, j \in 1..Cardinality(S) : i # j => o[i] # o[j]}

\* editJoints, the whole loop on one frame's dxl: what it can leave, over the
\* iteration orders of joint_positions_rad and over which push_backs reallocate
LoopOutcomes(dxl, j2i, upd, strict) ==
  UNION {{EditPairs(dxl, BuildId2Dxl(dxl), 1,
                    [order |-> order, upd |-> upd, strict |-> strict,
                     reallocs |-> reallocs, joint_to_id |-> j2i]) :
            reallocs \in [1..Len(order) -> BOOLEAN]} :
         order \in Orders(DOMAIN upd)}

\* mutant: a missing step is skipped in silence
editJoints_SilentMissing(fs, j2i, step_name, upd, strict) ==
  LET idx == findFrameIndexByName(fs, step_name)
  IN IF idx < 0 THEN {[err |-> "none", frames |-> fs]}
     ELSE {[err |-> r.err, frames |-> [fs EXCEPT ![idx + 1].dxl = r.dxl]] :
             r \in LoopOutcomes(fs[idx + 1].dxl, j2i, upd, strict)}

\* void MotionEditor::editJoints(step_name, joint_positions_rad, strict): the
\* exception and the frames_ the call can end with
editJoints(fs, j2i, step_name, upd, strict) ==
  LET idx == findFrameIndexByName(fs, step_name)
  IN IF idx < 0 THEN {[err |-> "NotFound", frames |-> fs]}
     ELSE {[err |-> r.err, frames |-> [fs EXCEPT ![idx + 1].dxl = r.dxl]] :
             r \in LoopOutcomes(fs[idx + 1].dxl, j2i, upd, strict)}

\* editFourArmJoints: the names put() copies into sub
FourArmNames == {"rotate_torso", "rotate_0", "rotate_1", "rotate_2", "rotate_3", "rotate_5"}
\* mutant: every pair is passed on
FourArmSub_NoFilter(upd) == upd
FourArmSub(upd) == [j \in (DOMAIN upd) \cap FourArmNames |-> upd[j]]

\* editFourArmJoints: `if (sub.empty()) return;` comes before editJoints
ReturnsEarly(sub) == DOMAIN sub = {}

\* mutant: the joints are written under the key joints
FrameNode_JointsKey(f) ==
  Mp(<<"time", "delay", "repeat", "name", "selected", "joints">>,
     <<Sc(IntToText(f.time)), Sc(IntToText(f.delay)), Sc(IntToText(f.repeat)),
       EmitString(f.name), Sc(BoolToText(f.selected)),
       Sq([i \in 1..Len(f.dxl) |->
             Mp(<<"id", "position">>,
                <<Sc(IntToText(f.dxl[i].id)), Sc(DoubleToText(f.dxl[i].position))>>)])>>)

\* YAML::Node MotionEditor::buildYamlFromAll(metas, frames): one frame's node
FrameNode(f) ==
  Mp(<<"time", "delay", "repeat", "name", "selected", "dxl">>,
     <<Sc(IntToText(f.time)), Sc(IntToText(f.delay)), Sc(IntToText(f.repeat)),
       EmitString(f.name), Sc(BoolToText(f.selected)),
       Sq([i \in 1..Len(f.dxl) |->
             Mp(<<"id", "position">>,
                <<Sc(IntToText(f.dxl[i].id)), Sc(DoubleToText(f.dxl[i].position))>>)])>>)

\* mutant: the frames are pushed before the metas
buildYamlFromAll_FramesFirst(metas, fs) ==
  Sq([i \in 1..Len(fs) |-> FrameNode(fs[i])] \o [i \in 1..Len(metas) |-> LoadRaw(metas[i])])

\* buildYamlFromAll: the metas re-parsed from rawYaml, then the frames
buildYamlFromAll(metas, fs) ==
  Sq([i \in 1..Len(metas) |-> LoadRaw(metas[i])] \o [i \in 1..Len(fs) |-> FrameNode(fs[i])])

\* ------------------------------------------------------------- the calls
StepNames == {"f1", "2", "zz"}
UpdNames == {"rotate_1", "rotate_5", "rotate_7"}
\* the JointPosMap arguments: each name with its target position
UpdPosition(j) == CASE j = "rotate_1" -> 33 [] j = "rotate_7" -> -11 [] OTHER -> 100
Updates == {[j \in S |-> UpdPosition(j)] : S \in SUBSET UpdNames}
NoUpd == [j \in {} |-> 0]
Called(op, path, step_name, upd, strict, err, ret) ==
  [op |-> op, path |-> path, step_name |-> step_name, upd |-> upd, strict |-> strict,
   err |-> err, ret |-> ret,
   pre_frames |-> frames, pre_blobs |-> meta_blobs, pre_map |-> joint_to_id]

Init ==
  /\ frames = <<>>
  /\ meta_blobs = <<>>
  /\ joint_to_id \in Mappings
  /\ \E root \in Roots :
       disk = [p \in Paths |-> [exists |-> TRUE, root |-> root, from |-> <<>>]]
  /\ loaded_doc = <<>>
  /\ last = [op |-> "construct", path |-> "", step_name |-> "", upd |-> NoUpd,
             strict |-> FALSE, err |-> "none", ret |-> <<>>,
             pre_frames |-> <<>>, pre_blobs |-> <<>>, pre_map |-> joint_to_id]
  /\ nedits = 0

\* me->loadFromFile(path)
Load(path) ==
  LET file == IF path \in Paths THEN disk[path] ELSE NoFile
  IN \E r \in {LoadResult(file)} :
       /\ frames' = r.frames
       /\ meta_blobs' = r.meta_blobs
       /\ loaded_doc' = IF file.exists /\ file.root.kind = "seq" THEN file.root.items
                        ELSE <<>>
       /\ last' = Called("load", path, "", NoUpd, FALSE, r.err, <<>>)
       /\ UNCHANGED <<joint_to_id, disk, nedits>>

\* me->saveToFile(path): the ofstream of a path that cannot be opened throws
Save(path) ==
  /\ IF path \in Paths
     THEN /\ disk' = [disk EXCEPT ![path] =
                        [exists |-> TRUE,
                         root |-> Canon(buildYamlFromAll(meta_blobs, frames)),
                         from |-> <<frames, meta_blobs>>]]
          /\ last' = Called("save", path, "", NoUpd, FALSE, "none", <<>>)
     ELSE /\ disk' = disk
          /\ last' = Called("save", path, "", NoUpd, FALSE, "IOError", <<>>)
  /\ UNCHANGED <<frames, meta_blobs, joint_to_id, loaded_doc, nedits>>

\* me->listStepNames()
ListStepNames ==
  /\ last' = Called("listStepNames", "", "", NoUpd, FALSE, "none", listStepNames(frames))
  /\ UNCHANGED <<frames, meta_blobs, joint_to_id, disk, loaded_doc, nedits>>

\* me->getFrame(step_name)
GetFrame(step_name) ==
  /\ last' = Called("getFrame", "", step_name, NoUpd, FALSE, "none",
                    getFrame(frames, step_name))
  /\ UNCHANGED <<frames, meta_blobs, joint_to_id, disk, loaded_doc, nedits>>

\* me->editJoints(step_name, upd, strict)
EditJoints(step_name, upd, strict) ==
  /\ nedits < MaxEdits
  /\ \E r \in editJoints(frames, joint_to_id, step_name, upd, strict) :
       /\ frames' = r.frames
       /\ last' = Called("editJoints", "", step_name, upd, strict, r.err, <<>>)
  /\ nedits' = nedits + 1
  /\ UNCHANGED <<meta_blobs, joint_to_id, disk, loaded_doc>>

\* me->editFourArmJoints(step_name, upd)
EditFourArmJoints(step_name, upd) ==
  /\ nedits < MaxEdits
  /\ LET sub == FourArmSub(upd)
     IN IF ReturnsEarly(sub)
        THEN /\ frames' = frames
             /\ last' = Called("editFourArmJoints", "", step_name, upd, FALSE,
                               "none", <<>>)
        ELSE \E r \in editJoints(frames, joint_to_id, step_name, sub, FALSE) :
               /\ frames' = r.frames
               /\ last' = Called("editFourArmJoints", "", step_name, upd, FALSE,
                                 r.err, <<>>)
  /\ nedits' = nedits + 1
  /\ UNCHANGED <<meta_blobs, joint_to_id, disk, loaded_doc>>

\* me->setJointToId(m)
SetJointToId(m) ==
  /\ m # joint_to_id
  /\ joint_to_id' = m
  /\ last' = Called("setJointToId", "", "", NoUpd, FALSE, "none", <<>>)
  /\ UNCHANGED <<frames, meta_blobs, disk, loaded_doc, nedits>>

Next ==
  \/ \E path \in Paths \cup {BadPath} : Load(path)
  \/ \E path \in Paths \cup {BadPath} : Save(path)
  \/ ListStepNames
  \/ \E step_name \in StepNames : GetFrame(step_name)
  \/ \E step_name \in StepNames, upd \in Updates, strict \in BOOLEAN :
       EditJoints(step_name, upd, strict)
  \/ \E step_name \in StepNames, upd \in Updates : EditFourArmJoints(step_name, upd)
  \/ \E m \in Mappings : SetJointToId(m)

Spec == Init /\ [][Next]_vars

\* ------------------------------------------------------------ the claims
\* what the claims speak of, stated apart from the operators above
KeysOf(e) == {e.keys[i] : i \in 1..Len(e.keys)}
IsFrameShaped(e) == e.kind = "map" /\ {"dxl", "time", "name"} \subseteq KeysOf(e)
NamedAt(fs, name) == {i \in 1..Len(fs) : fs[i].name = name}
FirstMatch(fs, name) == CHOOSE i \in NamedAt(fs, name) : \A j \in NamedAt(fs, name) : i <= j
TargetIds(map, names) == {map[j] : j \in names \cap DOMAIN map}
IdsOf(dxl) == {dxl[k].id : k \in 1..Len(dxl)}
SameButJoints(f, g) ==
  /\ f.time = g.time /\ f.delay = g.delay /\ f.repeat = g.repeat
  /\ f.name = g.name /\ f.selected = g.selected
\* the joint sequence grew at its end, and an entry differs from the one before
\* the call, or is new, only when its id is in ids
OnlyTargetsTouched(pre_dxl, dxl, ids) ==
  /\ Len(dxl) >= Len(pre_dxl)
  /\ \A k \in 1..Len(dxl) :
       IF k <= Len(pre_dxl)
       THEN dxl[k] = pre_dxl[k] \/ (dxl[k].id = pre_dxl[k].id /\ dxl[k].id \in ids)
       ELSE dxl[k].id \in ids
\* only the joints of the first frame named name differ, and only at ids
OnlyFrameJointsTouched(pre, post, name, ids) ==
  /\ Len(post) = Len(pre)
  /\ \A i \in 1..Len(pre) :
       IF i = FirstMatch(pre, name)
       THEN SameButJoints(pre[i], post[i]) /\ OnlyTargetsTouched(pre[i].dxl, post[i].dxl, ids)
       ELSE post[i] = pre[i]
EditorUnchanged ==
  frames = last.pre_frames /\ meta_blobs = last.pre_blobs /\ joint_to_id = last.pre_map

\* C1: a loadFromFile that throws (a missing file, a root that is no sequence,
\* a frame candidate that does not parse, also one behind well-formed frames
\* and blobs) leaves the editor with no frames and no blobs.
C1_FailedLoadLeavesEmpty ==
  (last.op = "load" /\ last.err # "none") => (frames = <<>> /\ meta_blobs = <<>>)

C3_MissingFrameThrows ==
  (last.op = "editJoints" /\ NamedAt(last.pre_frames, last.step_name) = {}) =>
    (last.err = "NotFound" /\ EditorUnchanged)
C3_Witness ==
  /\ last.op = "editJoints" /\ last.err = "NotFound" /\ last.strict
  /\ DOMAIN last.upd = {"rotate_7"} /\ "rotate_7" \notin DOMAIN last.pre_map
  /\ Len(last.pre_frames) >= 2

\* C4: editJoints with strict = false on an existing frame throws nothing and
\* changes nothing but joint entries of the first frame with that name whose id
\* is the mapped id of a name in updates: the other frames, the blobs, the
\* mapping, that frame's time/delay/repeat/name/selected and its joints with
\* other ids stay (so updates of unknown names only change nothing).
C4_NonStrictTouchesOnlyTargets ==
  (last.op = "editJoints" /\ ~last.strict /\ NamedAt(last.pre_frames, last.step_name) # {}) =>
    /\ last.err = "none"
    /\ meta_blobs = last.pre_blobs /\ joint_to_id = last.pre_map
    /\ OnlyFrameJointsTouched(last.pre_frames, frames, last.step_name,
                              TargetIds(last.pre_map, DOMAIN last.upd))
C4_Witness ==
  /\ last.op = "editJoints" /\ ~last.strict /\ last.err = "none"
  /\ DOMAIN last.upd = {"rotate_1", "rotate_7"}
  /\ "rotate_7" \notin DOMAIN last.pre_map
  /\ NamedAt(last.pre_frames, last.step_name) # {}
  /\ frames # last.pre_frames /\ Len(frames) >= 2

\* C5: after an editJoints that returns, on a frame with distinct joint ids and
\* updates whose known names map to distinct ids, the frame's joints are those
\* before the call with the target position at every targeted id, followed by
\* one new entry per targeted id that was absent, whatever the iteration order
\* and also when the call both appends and overwrites.
C5_EditStoresEveryTarget ==
  (/\ last.op = "editJoints" /\ last.err = "none"
   /\ NamedAt(last.pre_frames, last.step_name) # {}) =>
    LET i == FirstMatch(last.pre_frames, last.step_name)
        pre_dxl == last.pre_frames[i].dxl
        dxl == frames[i].dxl
        known == (DOMAIN last.upd) \cap (DOMAIN last.pre_map)
        ids == TargetIds(last.pre_map, DOMAIN last.upd)
        Target(id) == last.upd[CHOOSE j \in known : last.pre_map[j] = id]
        fresh == ids \ IdsOf(pre_dxl)
    IN (/\ \A a, b \in 1..Len(pre_dxl) : a # b => pre_dxl[a].id # pre_dxl[b].id
        /\ \A a, b \in known : a # b => last.pre_map[a] # last.pre_map[b]) =>
         /\ Len(dxl) = Len(pre_dxl) + Cardinality(fresh)
         /\ \A k \in 1..Len(pre_dxl) :
              /\ dxl[k].id = pre_dxl[k].id
              /\ dxl[k].position = IF pre_dxl[k].id \in ids THEN Target(pre_dxl[k].id)
                                   ELSE pre_dxl[k].position
         /\ {dxl[k] : k \in (Len(pre_dxl) + 1)..Len(dxl)} =
              {DxlValue(id, Target(id)) : id \in fresh}

\* C6 as claimed: an editJoints that throws leaves every frame and every blob
\* as before the call, whatever the iteration order of updates.
C6_FailedEditLeavesDocument ==
  (last.op = "editJoints" /\ last.err # "none") =>
    (frames = last.pre_frames /\ meta_blobs = last.pre_blobs)
\* C6 amended: an editJoints that throws step-not-found leaves the editor as it
\* was; one that throws unknown-joint-name under strict leaves the blobs, the
\* mapping, every other frame and the resolved frame's fields and joints with
\* non-targeted ids as they were, while joints of the resolved frame whose id
\* is the mapped id of a known name in updates may be overwritten or appended.
C6_FailedEditTouchesOnlyTargets ==
  (last.op = "editJoints" /\ last.err # "none") =>
    /\ meta_blobs = last.pre_blobs /\ joint_to_id = last.pre_map
    /\ IF NamedAt(last.pre_frames, last.step_name) = {}
       THEN last.err = "NotFound" /\ frames = last.pre_frames
       ELSE /\ last.err = "UnknownJoint" /\ last.strict
            /\ (DOMAIN last.upd) \ (DOMAIN last.pre_map) # {}
            /\ OnlyFrameJointsTouched(last.pre_frames, frames, last.step_name,
                                      TargetIds(last.pre_map, DOMAIN last.upd))
C6_Witness ==
  /\ last.op = "editJoints" /\ last.err = "UnknownJoint" /\ last.strict
  /\ frames # last.pre_frames

C7_Whitelist == {"rotate_torso", "rotate_0", "rotate_1", "rotate_2", "rotate_3", "rotate_5"}

C8_RoundTrip ==
  (last.op = "load" /\ last.path \in Paths) =>
    (disk[last.path].from # <<>> =>
       /\ last.err = "none"
       /\ frames = disk[last.path].from[1]
       /\ meta_blobs = disk[last.path].from[2])
C8_Witness ==
  /\ last.op = "load" /\ last.path \in Paths /\ disk[last.path].from # <<>>
  /\ Len(frames) >= 2 /\ Len(meta_blobs) >= 2
  /\ \E i \in 1..Len(frames) : \E k \in 1..Len(frames[i].dxl) :
       frames[i].dxl[k].position = 33

\* C9: saveToFile writes the blobs in order, then the frames in order, each
\* frame a mapping of time, delay, repeat, name, selected, dxl with its joints
\* in the frame's order; for a loaded document with a blob behind a frame the
\* written order of entries differs from the loaded one while each group keeps
\* its order; saveToFile changes nothing the editor holds.
C9_FrameWritten(node, f) ==
  /\ node.kind = "map"
  /\ node.keys = <<"time", "delay", "repeat", "name", "selected", "dxl">>
  /\ \A k \in 1..5 : node.items[k].kind = "scalar"
  /\ IsIntText(node.items[1].text) /\ AsInt(node.items[1].text) = f.time
  /\ IsIntText(node.items[2].text) /\ AsInt(node.items[2].text) = f.delay
  /\ IsIntText(node.items[3].text) /\ AsInt(node.items[3].text) = f.repeat
  /\ node.items[4].text = f.name
  /\ IsBoolText(node.items[5].text) /\ AsBool(node.items[5].text) = f.selected
  /\ node.items[6].kind = "seq" /\ Len(node.items[6].items) = Len(f.dxl)
  /\ \A k \in 1..Len(f.dxl) :
       LET one == node.items[6].items[k]
       IN /\ one.kind = "map" /\ one.keys = <<"id", "position">>
          /\ one.items[1].kind = "scalar" /\ IsIntText(one.items[1].text)
          /\ AsInt(one.items[1].text) = f.dxl[k].id
          /\ one.items[2].kind = "scalar" /\ IsDoubleText(one.items[2].text)
          /\ AsDouble(one.items[2].text) = f.dxl[k].position
C9_SaveLayout ==
  (last.op = "save") =>
    /\ EditorUnchanged
    /\ last.err = "none" =>
         LET root == disk[last.path].root
             nb == Len(meta_blobs)
             NotFrameShaped(e) == ~IsFrameShaped(e)
             loaded_blobs == SelectSeq(loaded_doc, NotFrameShaped)
         IN /\ root.kind = "seq" /\ Len(root.items) = nb + Len(frames)
            /\ \A i \in 1..nb : root.items[i] = meta_blobs[i].rawYaml
            /\ \A i \in 1..Len(frames) : C9_FrameWritten(root.items[nb + i], frames[i])
            /\ (/\ Len(loaded_doc) = nb + Len(frames)
                /\ \E i, j \in 1..Len(loaded_doc) :
                     i < j /\ IsFrameShaped(loaded_doc[i]) /\ ~IsFrameShaped(loaded_doc[j])) =>
                 /\ [i \in 1..Len(root.items) |-> IsFrameShaped(root.items[i])] #
                      [i \in 1..Len(loaded_doc) |-> IsFrameShaped(loaded_doc[i])]
                 /\ SelectSeq(root.items, NotFrameShaped) =
                      [i \in 1..Len(loaded_blobs) |-> Canon(loaded_blobs[i])]
                 /\ [i \in 1..Len(frames) |-> root.items[nb + i].items[4].text] =
                      [i \in 1..Len(frames) |->
                         Get(SelectSeq(loaded_doc, IsFrameShaped)[i], "name").text]
C9_Witness ==
  /\ last.op = "save" /\ last.err = "none"
  /\ loaded_doc = DocMixed /\ Len(frames) = 2 /\ Len(meta_blobs) = 2
  /\ \E k \in 1..Len(frames[1].dxl) : frames[1].dxl[k].position = 33

\* C10: getFrame returns a copy of the first frame with the name, or nothing
\* when no frame has it, and changes nothing; editJoints and editFourArmJoints
\* leave every frame but the first with the name as it was, so also the later
\* frames of the same name; listStepNames returns all names in order.
C10_FirstMatch ==
  /\ (last.op = "getFrame") =>
       /\ EditorUnchanged
       /\ last.ret.has = (NamedAt(frames, last.step_name) # {})
       /\ last.ret.has => last.ret.f = frames[FirstMatch(frames, last.step_name)]
  /\ (last.op \in {"editJoints", "editFourArmJoints"}) =>
       /\ Len(frames) = Len(last.pre_frames)
       /\ \A i \in 1..Len(frames) :
            (NamedAt(last.pre_frames, last.step_name) = {}
               \/ i # FirstMatch(last.pre_frames, last.step_name)) =>
              frames[i] = last.pre_frames[i]
  /\ (last.op = "listStepNames") =>
       /\ EditorUnchanged
       /\ Len(last.ret) = Len(frames)
       /\ \A i \in 1..Len(frames) : last.ret[i] = frames[i].name
C10_Witness ==
  /\ last.op = "editJoints" /\ last.err = "none"
  /\ \E i, j \in NamedAt(last.pre_frames, last.step_name) :
       /\ i < j /\ i > 1
       /\ frames[i] # last.pre_frames[i]
       /\ frames[j] = last.pre_frames[j]

====
